---- MODULE Spec2Model ----
(***************************************************************************)
(* A model of the RingBuffer of PlakarLabs/go-ringbuffer.                  *)
(*                                                                         *)
(* Spec   models src/ringbuffer.go: the buffer with the staging (prefill)  *)
(*        slice, the looping Read, Write, Peek and Skip.  Every public     *)
(*        call holds callMutex from its first to its last statement, so a  *)
(*        call is one step.                                                *)
(* SpecPD models src/unnamed/part_001: the unsynchronized buffer whose     *)
(*        fill reads straight into the storage array and whose Read is     *)
(*        Peek followed by Discard.                                        *)
(*                                                                         *)
(* Bytes are numbers.  The source yields S = <<1, 2, ..., srcLen>>, a      *)
(* Write offers bytes above MaxSrc never offered before, and the storage   *)
(* array starts zeroed (Go's make), so a byte that is lost, repeated,      *)
(* reordered or invented is visible in the values.                         *)
(***************************************************************************)
EXTENDS Integers, Sequences, FiniteSets, TLC

\* ------------------------------------------------------------------ bounds
MaxCap == 2        \* capacities 1..MaxCap
MaxSrc == 3        \* the source yields 0..MaxSrc bytes
MaxP == 3          \* len(p) of Read and Peek, n of Skip and Discard: 0..MaxP
MaxData == 2       \* len(data) of one Write: 0..MaxData
MaxWritten == 3    \* bytes offered to Write over a whole run, buffer of New
MaxWrittenRd == 0  \* the same, buffer of NewReaderSize (0: empty Writes only)
MaxCapPD == 4      \* capacities 1..MaxCapPD of the buffer of part_001
MaxCapCopy == 4    \* capacities 1..MaxCapCopy of the buffers the copies are applied to
MaxCapFair == 1    \* capacities 1..MaxCapFair where the return of every call is checked
MaxSrcFair == 1    \* the source yields 0..MaxSrcFair bytes there

VARIABLES
    bufcap,      \* cap(rb.buffer)
    buffer,      \* rb.buffer: 0..bufcap-1 -> byte
    head,        \* rb.head
    tail,        \* rb.tail
    filled,      \* rb.filled (0 or 1)
    rd,          \* rb.rd # nil
    rdErr,       \* rb.rdErr: "nil", "EOF" or "ERR"
    panicked,    \* "" or the message of the panic that ended the program
    srcLen,      \* the source: length of S
    srcPos,      \* the source: bytes it has handed out so far
    srcEofWith,  \* the source reports io.EOF together with its last bytes
    srcShort,    \* the source may answer with fewer bytes than requested
    srcFail,     \* the source may answer with a non-EOF error
    srcEnd,      \* the source: "" or the status it last answered, "EOF" or "ERR"
    srcAgain,    \* the source: its Read was called after it answered a status
    reqs,        \* part_001: the regions [lo, hi) of rb.buffer that the last call
                 \* handed to the source, in order
    written,     \* bytes offered to Write so far
    fifo,        \* reference model: the accepted, unconsumed bytes, oldest first
    client,      \* the program using the buffer: "reader", "queue" or "any"
    out,         \* client "reader": the bytes Read returned, up to its first io.EOF
    eofSeen,     \* client "reader": a Read has returned io.EOF
    last,        \* the last public call: its kind, argument and results
    callMutex,   \* rb.callMutex: "" or the goroutine that holds it
    gor,         \* the goroutines: the call each is in, its position and locals
    lin,         \* the RingBuffer and its source when the last call returned
    bufferMutex, \* rb.bufferMutex: "" or the goroutine that holds it
    truth        \* the buffered lengths that are true of the buffer now: one,
                 \* or the one before and the one after a change under way

vars == <<bufcap, buffer, head, tail, filled, rd, rdErr, panicked, srcLen, srcPos,
          srcEofWith, srcShort, srcFail, srcEnd, srcAgain, reqs, written, fifo, client, out, eofSeen, last,
          callMutex, gor, lin, bufferMutex, truth>>

\* ----------------------------------------------------------------- helpers
Min(a, b) == IF a < b THEN a ELSE b

Take(s, n) == SubSeq(s, 1, Min(n, Len(s)))

Drop(s, n) == SubSeq(s, Min(n, Len(s)) + 1, Len(s))

IsPrefix(s, t) == Len(s) <= Len(t) /\ SubSeq(t, 1, Len(s)) = s

\* b[lo:hi] of a Go slice, as a sequence
Slice(b, lo, hi) == [i \in 1..(hi - lo) |-> b[lo + i - 1]]

\* copy(b[off:], data): copies min(len(b) - off, len(data)) bytes
CopyIn(b, off, data) ==
    [i \in DOMAIN b |-> IF off <= i /\ i - off < Len(data) THEN data[i - off + 1] ELSE b[i]]

\* the bytes the source hands out between two of its positions
SrcSeg(from, to) == [i \in 1..(to - from) |-> from + i]

\* the bytes of a Write of k bytes
WriteData(k) == [i \in 1..k |-> MaxSrc + written + i]

\* the RingBuffer and its source as one value
RB == [buffer |-> buffer, head |-> head, tail |-> tail, filled |-> filled,
       rd |-> rd, rdErr |-> rdErr, srcPos |-> srcPos, srcEnd |-> srcEnd,
       srcAgain |-> srcAgain, reqs |-> reqs, panicked |-> panicked]

\* ------------------------------------------------------------ the source
\* rb.rd.Read(p) with len(p) = k >= 1: the answers (n, err) of an io.Reader
\* that still has srcLen - pos bytes to give
SrcRead(pos, k) ==
    LET rem == srcLen - pos
        fatal == IF srcFail THEN {[n |-> 0, err |-> "ERR"]} ELSE {}
        sizes == IF srcShort THEN 1..Min(k, rem) ELSE {Min(k, rem)}
    IN  fatal \cup
        (IF rem = 0
         THEN {[n |-> 0, err |-> "EOF"]}
         ELSE {[n |-> m, err |-> IF m = rem /\ srcEofWith THEN "EOF" ELSE "nil"] : m \in sizes})

\* the source after rb.rd.Read answered o: it remembers a status it gave, and
\* that it was called once more after giving one
Asked(w, o) ==
    [w EXCEPT !.srcAgain = w.srcAgain \/ w.srcEnd # "",
              !.srcEnd = IF o.err # "nil" THEN o.err ELSE w.srcEnd]

\* ------------------------------------------------------- src/ringbuffer.go
unlockedCapacity(w) ==
    IF w.filled = 1 THEN 0
    ELSE LET delta == w.tail - w.head
         IN  IF delta < 0 THEN -delta ELSE bufcap - delta

unlockedLen(w) == bufcap - unlockedCapacity(w)

\* a writeBytes whose second copy starts again at data[0], not at data[pivot]
writeBytes_SecondCopyFromStart(w, data) ==
    LET d0 == w.tail - w.head
        delta == IF d0 < 0 THEN -d0 ELSE bufcap - d0
        end == w.tail + Len(data)
        pivot == bufcap - w.tail
        b1 == IF end <= bufcap
              THEN CopyIn(w.buffer, w.tail, data)
              ELSE CopyIn(CopyIn(w.buffer, w.tail, Take(data, pivot)),
                          0, Take(data, Len(data) - pivot))
        t1 == (w.tail + Len(data)) % bufcap
    IN  IF delta < Len(data)
        THEN [w EXCEPT !.panicked = "RingBuffer overflow"]
        ELSE [w EXCEPT !.buffer = b1, !.tail = t1,
                       !.filled = IF w.head = t1 THEN 1 ELSE w.filled]

writeBytes(w, data) ==
    LET d0 == w.tail - w.head
        delta == IF d0 < 0 THEN -d0 ELSE bufcap - d0
        end == w.tail + Len(data)
        pivot == bufcap - w.tail
        b1 == IF end <= bufcap
              THEN CopyIn(w.buffer, w.tail, data)
              ELSE CopyIn(IF pivot > 0 THEN CopyIn(w.buffer, w.tail, Take(data, pivot))
                                       ELSE w.buffer,
                          0, Drop(data, pivot))
        t1 == (w.tail + Len(data)) % bufcap
    IN  IF delta < Len(data)
        THEN [w EXCEPT !.panicked = "RingBuffer overflow"]
        ELSE [w EXCEPT !.buffer = b1, !.tail = t1,
                       !.filled = IF w.head = t1 THEN 1 ELSE w.filled]

\* the bytes readBytes and peekBytes copy out for a request of n <= unlockedLen
copyOut(w, n) ==
    IF w.head + n <= bufcap
    THEN Slice(w.buffer, w.head, w.head + n)
    ELSE LET pivot == bufcap - w.head
         IN  Slice(w.buffer, w.head, bufcap) \o Slice(w.buffer, 0, n - pivot)

readBytes(w, n) ==
    IF n > unlockedLen(w)
    THEN [w |-> [w EXCEPT !.panicked = "RingBuffer underflow"], data |-> <<>>]
    ELSE [w |-> [w EXCEPT !.head = (w.head + n) % bufcap, !.filled = 0],
          data |-> copyOut(w, n)]

\* a peekBytes that moves the read cursor, as readBytes does
peekBytes_Consumes(w, n) == readBytes(w, n)

peekBytes(w, n) ==
    IF n > unlockedLen(w)
    THEN [w |-> [w EXCEPT !.panicked = "RingBuffer underflow"], data |-> <<>>]
    ELSE [w |-> w, data |-> copyOut(w, n)]

\* a skip that moves the read cursor without wrapping it
skip_NoWrap(w, n) ==
    IF n > unlockedLen(w)
    THEN [w EXCEPT !.panicked = "RingBuffer overflow"]
    ELSE [w EXCEPT !.head = w.head + n, !.filled = 0]

skip(w, n) ==
    IF n > unlockedLen(w)
    THEN [w EXCEPT !.panicked = "RingBuffer overflow"]
    ELSE [w EXCEPT !.head = (w.head + n) % bufcap, !.filled = 0]

\* a prefillBuffer that does not record the source's end-of-stream
prefillApply_EofNotRecorded(w, o) ==
    IF o.err = "ERR"
    THEN [Asked(w, o) EXCEPT !.rdErr = "ERR"]
    ELSE writeBytes([Asked(w, o) EXCEPT !.srcPos = w.srcPos + o.n],
                    SrcSeg(w.srcPos, w.srcPos + o.n))

\* one source answer o = (n, err) applied by prefillBuffer
prefillApply(w, o) ==
    IF o.err = "ERR"
    THEN [Asked(w, o) EXCEPT !.rdErr = "ERR"]
    ELSE LET w1 == writeBytes([Asked(w, o) EXCEPT !.srcPos = w.srcPos + o.n],
                              SrcSeg(w.srcPos, w.srcPos + o.n))
         IN  IF w1.panicked # "" THEN w1
             ELSE IF o.err = "EOF" THEN [w1 EXCEPT !.rd = FALSE, !.rdErr = "EOF"]
             ELSE w1

\* a prefillBuffer without the return on a recorded status
prefillBuffer_NoEarlyReturn(w) ==
    IF w.rd /\ unlockedCapacity(w) # 0 /\ w.rdErr # "EOF"
    THEN {prefillApply(w, o) : o \in SrcRead(w.srcPos, unlockedCapacity(w))}
    ELSE {w}

\* prefillBuffer: the states it can leave, one per answer of the source
prefillBuffer(w) ==
    IF w.rdErr # "nil" THEN {w}
    ELSE IF w.rd /\ unlockedCapacity(w) # 0 /\ w.rdErr # "EOF"
         THEN {prefillApply(w, o) : o \in SrcRead(w.srcPos, unlockedCapacity(w))}
         ELSE {w}

Ret(w, n, err, data) == [w |-> w, n |-> n, err |-> err, data |-> data]

RECURSIVE ReadLoop(_, _, _, _)

RECURSIVE ReadBody(_, _, _, _)

\* the body of Read's for loop, entered after prefillBuffer left w1
ReadBody(w1, plen, nbytes, acc) ==
    LET rblen0 == unlockedLen(w1)
        rblen == IF rblen0 > plen - nbytes THEN plen - nbytes ELSE rblen0
        r == readBytes(w1, rblen)
    IN  IF w1.panicked # "" THEN {Ret(w1, 0, "panic", <<>>)}
        ELSE IF rblen0 = 0 /\ w1.rdErr # "nil"
        THEN IF w1.rdErr = "EOF"
             THEN {Ret(w1, nbytes, "EOF", acc)}
             ELSE {Ret(w1, 0, w1.rdErr, <<>>)}
        ELSE IF r.w.panicked # "" THEN {Ret(r.w, 0, "panic", <<>>)}
        ELSE IF unlockedLen(r.w) = 0
        THEN {Ret(r.w, nbytes + rblen, "nil", acc \o r.data)}
        ELSE ReadLoop(r.w, plen, nbytes + rblen, acc \o r.data)

\* Read's for loop with nbytes bytes already in p, and the statements after it
ReadLoop(w, plen, nbytes, acc) ==
    IF nbytes < plen
    THEN UNION {ReadBody(w1, plen, nbytes, acc) : w1 \in prefillBuffer(w)}
    ELSE IF nbytes # 0
    THEN {Ret(w, nbytes, "nil", acc)}
    ELSE {Ret(w, 0, w.rdErr, <<>>)}

\* Read(p) with len(p) = plen: the results (rb after, n, err, p[:n])
Read(w, plen) == ReadLoop(w, plen, 0, <<>>)

\* a Peek that does not cap the returned length to len(p)
PeekBody_Unclamped(w1, plen) ==
    LET rblen == unlockedLen(w1)
        r == peekBytes(w1, rblen)
    IN  IF w1.panicked # "" THEN Ret(w1, 0, "panic", <<>>)
        ELSE Ret(r.w, rblen, r.w.rdErr, r.data)

\* the return value of Peek once prefillBuffer left w1
PeekBody(w1, plen) ==
    LET rblen0 == unlockedLen(w1)
        rblen == IF rblen0 > plen THEN plen ELSE rblen0
        r == peekBytes(w1, rblen)
    IN  IF w1.panicked # "" THEN Ret(w1, 0, "panic", <<>>)
        ELSE IF r.w.panicked # "" THEN Ret(r.w, 0, "panic", <<>>)
        ELSE Ret(r.w, rblen, r.w.rdErr, r.data)

Peek(w, plen) == {PeekBody(w1, plen) : w1 \in prefillBuffer(w)}

\* Skip(n): n after the clamp is reported as the result
Skip(w, n) ==
    LET n1 == IF n > unlockedLen(w) THEN unlockedLen(w) ELSE n
    IN  Ret(skip(w, n1), n1, "nil", <<>>)

\* a Write that lets empty data through the full check
Write_EmptyPassesFull(w, data) ==
    LET capacity == unlockedCapacity(w)
        nbytes == IF Len(data) > capacity THEN capacity ELSE Len(data)
        w1 == writeBytes(w, Take(data, nbytes))
    IN  IF w.filled # 0 /\ Len(data) # 0 THEN Ret(w, 0, "ErrBufferFull", <<>>)
        ELSE IF w1.panicked # "" THEN Ret(w1, 0, "panic", <<>>)
        ELSE Ret(w1, nbytes, IF nbytes # Len(data) THEN "ErrShortWrite" ELSE "nil", <<>>)

\* a Write that reports the short write when it filled the buffer
Write_ShortWhenFilled(w, data) ==
    LET capacity == unlockedCapacity(w)
        nbytes == IF Len(data) > capacity THEN capacity ELSE Len(data)
        w1 == writeBytes(w, Take(data, nbytes))
    IN  IF w.filled # 0 THEN Ret(w, 0, "ErrBufferFull", <<>>)
        ELSE IF w1.panicked # "" THEN Ret(w1, 0, "panic", <<>>)
        ELSE Ret(w1, nbytes, IF nbytes = capacity THEN "ErrShortWrite" ELSE "nil", <<>>)

Write(w, data) ==
    LET capacity == unlockedCapacity(w)
        nbytes == IF Len(data) > capacity THEN capacity ELSE Len(data)
        w1 == writeBytes(w, Take(data, nbytes))
    IN  IF w.filled # 0 THEN Ret(w, 0, "ErrBufferFull", <<>>)
        ELSE IF w1.panicked # "" THEN Ret(w1, 0, "panic", <<>>)
        ELSE Ret(w1, nbytes, IF nbytes # Len(data) THEN "ErrShortWrite" ELSE "nil", <<>>)

\* ------------------------------------------------------------ state machine
\* the goroutines of a program with concurrent callers
Gor == {"g1", "g2"}

\* a goroutine that is not inside a call
Idle == [pc |-> "idle", op |-> "", len |-> 0, nbytes |-> 0, p |-> <<>>,
         n |-> 0, err |-> "nil"]

\* a program that makes its calls from one goroutine: a call is one step
Sequential ==
    /\ callMutex = ""
    /\ bufferMutex = ""
    /\ truth = {}
    /\ gor = [g \in Gor |-> Idle]
    /\ lin = <<>>

\* the buffer was built by New: it never had a source
FromNew == ~rd /\ rdErr = "nil"

\* the record of a call; again: the call before it had the same kind and argument
Call(op, len, r, ref) ==
    [op |-> op, len |-> len, n |-> r.n, err |-> r.err, data |-> r.data, ref |-> ref,
     again |-> (last.op = op /\ last.len = len)]

\* the fields of the RingBuffer and of its source after a statement
Fields(w) ==
    /\ buffer' = w.buffer
    /\ head' = w.head
    /\ tail' = w.tail
    /\ filled' = w.filled
    /\ rd' = w.rd
    /\ rdErr' = w.rdErr
    /\ srcPos' = w.srcPos
    /\ srcEnd' = w.srcEnd
    /\ srcAgain' = w.srcAgain
    /\ reqs' = w.reqs
    /\ panicked' = w.panicked
    /\ UNCHANGED <<bufcap, srcLen, srcEofWith, srcShort, srcFail, client>>

\* the same where bufferMutex is free before and after the statements
Stores(w) ==
    /\ Fields(w)
    /\ UNCHANGED <<bufferMutex, truth>>

\* the same after a whole call made by a program of one goroutine
Becomes(w) ==
    /\ Stores(w)
    /\ UNCHANGED <<callMutex, gor, lin>>

\* New(size) and NewReaderSize(rd, size), the latter with its first prefillBuffer
Fresh(withRd) ==
    [buffer |-> [i \in 0..(bufcap - 1) |-> 0], head |-> 0, tail |-> 0, filled |-> 0,
     rd |-> withRd, rdErr |-> "nil", srcPos |-> 0, srcEnd |-> "", srcAgain |-> FALSE,
     reqs |-> <<>>, panicked |-> ""]

\* The programs that use the buffer:
\*   "reader"  reads a source to its end through NewReaderSize with Read calls
\*             of one byte or more (the loop of Test, io.Copy of the example);
\*   "queue"   makes Write and Read calls on a buffer of New;
\*   "any"     makes any public call on a buffer of New or of NewReaderSize.
Init ==
    /\ bufcap \in 1..MaxCap
    /\ client \in {"reader", "queue", "any"}
    /\ \E withRd \in (CASE client = "reader" -> {TRUE}
                        [] client = "queue" -> {FALSE}
                        [] OTHER -> BOOLEAN) :
          /\ srcLen \in (IF withRd THEN 0..MaxSrc ELSE {0})
          /\ srcEofWith \in (IF withRd THEN BOOLEAN ELSE {FALSE})
          /\ srcShort \in (IF withRd THEN BOOLEAN ELSE {FALSE})
          /\ srcFail \in (IF withRd THEN BOOLEAN ELSE {FALSE})
          /\ \E w \in (IF withRd THEN prefillBuffer(Fresh(TRUE)) ELSE {Fresh(FALSE)}) :
                /\ buffer = w.buffer
                /\ head = w.head
                /\ tail = w.tail
                /\ filled = w.filled
                /\ rd = w.rd
                /\ rdErr = w.rdErr
                /\ srcPos = w.srcPos
                /\ srcEnd = w.srcEnd
                /\ srcAgain = w.srcAgain
                /\ reqs = w.reqs
                /\ panicked = w.panicked
                /\ fifo = SrcSeg(0, w.srcPos)
    /\ written = 0
    /\ out = <<>>
    /\ eofSeen = FALSE
    /\ last = [op |-> "New", len |-> 0, n |-> 0, err |-> "nil", data |-> <<>>, ref |-> <<>>,
               again |-> FALSE]
    /\ Sequential

DoRead ==
    /\ panicked = ""
    /\ \E plen \in (IF client = "reader" THEN 1..MaxP ELSE 0..MaxP) :
       \E r \in Read(RB, plen) :
          LET avail == fifo \o SrcSeg(srcPos, r.w.srcPos)
          IN  /\ Becomes(r.w)
              /\ fifo' = Drop(avail, r.n)
              /\ out' = IF client = "reader" /\ ~eofSeen THEN out \o r.data ELSE out
              /\ eofSeen' = (eofSeen \/ (client = "reader" /\ r.err = "EOF"))
              /\ last' = Call("Read", plen, r, Take(avail, plen))
              /\ UNCHANGED written

DoPeek ==
    /\ panicked = ""
    /\ client = "any"
    /\ \E plen \in 0..MaxP : \E r \in Peek(RB, plen) :
          /\ Becomes(r.w)
          /\ fifo' = fifo \o SrcSeg(srcPos, r.w.srcPos)
          /\ last' = Call("Peek", plen, r, <<>>)
          /\ UNCHANGED <<written, out, eofSeen>>

DoSkip ==
    /\ panicked = ""
    /\ client = "any"
    /\ \E n \in 0..MaxP :
          LET r == Skip(RB, n)
          IN  /\ Becomes(r.w)
              /\ fifo' = Drop(fifo, r.n)
              /\ last' = Call("Skip", n, r, <<>>)
              /\ UNCHANGED <<written, out, eofSeen>>

DoWrite ==
    /\ panicked = ""
    /\ client # "reader"
    /\ \E k \in 0..MaxData :
          /\ written + k <= (IF FromNew THEN MaxWritten ELSE MaxWrittenRd)
          /\ LET r == Write(RB, WriteData(k))
             IN  /\ Becomes(r.w)
                 /\ fifo' = fifo \o Take(WriteData(k), r.n)
                 /\ written' = written + k
                 /\ last' = Call("Write", k, r, <<>>)
                 /\ UNCHANGED <<out, eofSeen>>

Next == DoRead \/ DoPeek \/ DoSkip \/ DoWrite

Spec == Init /\ [][Next]_vars

\* ------------------------------------------- concurrent callers (SpecCC)
\* Two goroutines call Read, Peek, Skip and Write on one RingBuffer.  A step
\* is one stretch of a call between two points where another goroutine could
\* run: the Lock of callMutex, the statements up to the next change of the
\* shared fields, the deferred Unlock.

\* m.Lock() can return: the mutex is free
Lock_NoExclusion(m) == TRUE

Lock(m) == m = ""

\* goroutine g moves to position pc with the locals of l
Goes(g, l) == gor' = [gor EXCEPT ![g] = l]

\* goroutine g is at the deferred Unlock with the results (n, err)
Returns(g, n, err) == Goes(g, [gor[g] EXCEPT !.pc = "ret", !.n = n, !.err = err])

InitCC ==
    /\ bufcap \in 1..MaxCap
    /\ client = "goroutines"
    /\ \E withRd \in BOOLEAN :
          /\ srcLen \in (IF withRd THEN 0..MaxSrc ELSE {0})
          /\ srcEofWith \in (IF withRd THEN BOOLEAN ELSE {FALSE})
          /\ srcShort \in (IF withRd THEN BOOLEAN ELSE {FALSE})
          /\ srcFail \in (IF withRd THEN BOOLEAN ELSE {FALSE})
          /\ \E w \in (IF withRd THEN prefillBuffer(Fresh(TRUE)) ELSE {Fresh(FALSE)}) :
                /\ buffer = w.buffer
                /\ head = w.head
                /\ tail = w.tail
                /\ filled = w.filled
                /\ rd = w.rd
                /\ rdErr = w.rdErr
                /\ srcPos = w.srcPos
                /\ srcEnd = w.srcEnd
                /\ srcAgain = w.srcAgain
                /\ reqs = w.reqs
                /\ panicked = w.panicked
                /\ lin = w
    /\ written = 0
    /\ fifo = <<>>
    /\ out = <<>>
    /\ eofSeen = FALSE
    /\ last = [op |-> "New", len |-> 0, n |-> 0, err |-> "nil", data |-> <<>>, ref |-> <<>>,
               again |-> FALSE]
    /\ callMutex = ""
    /\ bufferMutex = ""
    /\ truth = {}
    /\ gor = [g \in Gor |-> Idle]

\* a goroutine calls Read(p), Peek(p), Skip(n) or Write(data): rb.callMutex.Lock()
GoCall(g) ==
    /\ panicked = ""
    /\ gor[g].pc = "idle"
    /\ Lock(callMutex)
    /\ callMutex' = g
    /\ \E op \in {"Read", "Peek", "Skip", "Write"}, len \in 0..MaxP :
          /\ op = "Write" =>
                 /\ len <= MaxData
                 /\ written + len <= (IF FromNew THEN MaxWritten ELSE MaxWrittenRd)
          /\ Goes(g, [Idle EXCEPT !.pc = op, !.op = op, !.len = len,
                                  !.p = IF op = "Write" THEN WriteData(len) ELSE <<>>])
          /\ written' = IF op = "Write" THEN written + len ELSE written
    /\ Stores(RB)
    /\ UNCHANGED <<fifo, out, eofSeen, last, lin>>

\* Read: the loop condition, then prefillBuffer or the statements after the loop
Read_for(g) ==
    /\ panicked = ""
    /\ gor[g].pc = "Read"
    /\ IF gor[g].nbytes < gor[g].len
       THEN \E w \in prefillBuffer(RB) :
               /\ Stores(w)
               /\ Goes(g, [gor[g] EXCEPT !.pc = "Read_copy"])
       ELSE /\ Stores(RB)
            /\ IF gor[g].nbytes # 0
               THEN Returns(g, gor[g].nbytes, "nil")
               ELSE Returns(g, 0, rdErr)
    /\ UNCHANGED <<written, fifo, out, eofSeen, last, callMutex, lin>>

\* Read: the rest of the loop body, from rblen := rb.unlockedLen()
Read_copy(g) ==
    /\ panicked = ""
    /\ gor[g].pc = "Read_copy"
    /\ LET l == gor[g]
           rblen0 == unlockedLen(RB)
           rblen == IF rblen0 > l.len - l.nbytes THEN l.len - l.nbytes ELSE rblen0
           r == readBytes(RB, rblen)
       IN  IF rblen0 = 0 /\ rdErr # "nil"
           THEN /\ Stores(RB)
                /\ IF rdErr = "EOF" THEN Returns(g, l.nbytes, "EOF")
                                    ELSE Returns(g, 0, rdErr)
           ELSE /\ Stores(r.w)
                /\ Goes(g, [l EXCEPT !.p = l.p \o r.data,
                                     !.nbytes = l.nbytes + rblen,
                                     !.n = IF unlockedLen(r.w) = 0 THEN l.nbytes + rblen ELSE 0,
                                     !.pc = IF unlockedLen(r.w) = 0 THEN "ret" ELSE "Read"])
    /\ UNCHANGED <<written, fifo, out, eofSeen, last, callMutex, lin>>

\* Peek: rb.prefillBuffer()
Peek_prefill(g) ==
    /\ panicked = ""
    /\ gor[g].pc = "Peek"
    /\ \E w \in prefillBuffer(RB) :
          /\ Stores(w)
          /\ Goes(g, [gor[g] EXCEPT !.pc = "Peek_copy"])
    /\ UNCHANGED <<written, fifo, out, eofSeen, last, callMutex, lin>>

\* Peek: from rblen := rb.unlockedLen() to the return statement
Peek_copy(g) ==
    /\ panicked = ""
    /\ gor[g].pc = "Peek_copy"
    /\ LET r == PeekBody(RB, gor[g].len)
       IN  /\ Stores(r.w)
           /\ Goes(g, [gor[g] EXCEPT !.pc = "ret", !.p = r.data, !.n = r.n, !.err = r.err])
    /\ UNCHANGED <<written, fifo, out, eofSeen, last, callMutex, lin>>

\* Skip: the clamp of n, then skip(n) up to its assignment of rb.head
Skip_head(g) ==
    /\ panicked = ""
    /\ gor[g].pc = "Skip"
    /\ LET n1 == IF gor[g].len > unlockedLen(RB) THEN unlockedLen(RB) ELSE gor[g].len
       IN  /\ Stores(IF n1 > unlockedLen(RB)
                     THEN [RB EXCEPT !.panicked = "RingBuffer overflow"]
                     ELSE [RB EXCEPT !.head = (head + n1) % bufcap])
           /\ Goes(g, [gor[g] EXCEPT !.pc = "Skip_filled", !.n = n1])
    /\ UNCHANGED <<written, fifo, out, eofSeen, last, callMutex, lin>>

\* skip(n): rb.filled = 0
Skip_filled(g) ==
    /\ panicked = ""
    /\ gor[g].pc = "Skip_filled"
    /\ Stores([RB EXCEPT !.filled = 0])
    /\ Returns(g, gor[g].n, "nil")
    /\ UNCHANGED <<written, fifo, out, eofSeen, last, callMutex, lin>>

\* Write: the read of rb.filled under bufferMutex and the return on a full buffer
Write_filled(g) ==
    /\ panicked = ""
    /\ gor[g].pc = "Write"
    /\ Stores(RB)
    /\ IF filled # 0
       THEN Returns(g, 0, "ErrBufferFull")
       ELSE Goes(g, [gor[g] EXCEPT !.pc = "Write_cap"])
    /\ UNCHANGED <<written, fifo, out, eofSeen, last, callMutex, lin>>

\* a Write that does not clamp nbytes to the capacity
Write_cap_NoClamp(g) ==
    /\ panicked = ""
    /\ gor[g].pc = "Write_cap"
    /\ Stores(RB)
    /\ Goes(g, [gor[g] EXCEPT !.pc = "Write_bytes", !.nbytes = gor[g].len])
    /\ UNCHANGED <<written, fifo, out, eofSeen, last, callMutex, lin>>

\* Write: capacity := rb.Capacity() and the clamp of nbytes
Write_cap(g) ==
    /\ panicked = ""
    /\ gor[g].pc = "Write_cap"
    /\ Stores(RB)
    /\ LET capacity == unlockedCapacity(RB)
       IN  Goes(g, [gor[g] EXCEPT !.pc = "Write_bytes",
                                  !.nbytes = IF gor[g].len > capacity THEN capacity
                                             ELSE gor[g].len])
    /\ UNCHANGED <<written, fifo, out, eofSeen, last, callMutex, lin>>

\* Write: rb.writeBytes(data[:nbytes]) and the return statements
Write_bytes(g) ==
    /\ panicked = ""
    /\ gor[g].pc = "Write_bytes"
    /\ Stores(writeBytes(RB, Take(gor[g].p, gor[g].nbytes)))
    /\ Returns(g, gor[g].nbytes,
               IF gor[g].nbytes # gor[g].len THEN "ErrShortWrite" ELSE "nil")
    /\ UNCHANGED <<written, fifo, out, eofSeen, last, callMutex, lin>>

\* the deferred rb.callMutex.Unlock() of every call, and the return
Return(g) ==
    /\ panicked = ""
    /\ gor[g].pc = "ret"
    /\ callMutex' = ""
    /\ lin' = RB
    /\ Goes(g, Idle)
    /\ Stores(RB)
    /\ UNCHANGED <<written, fifo, out, eofSeen, last>>

NextCC ==
    \E g \in Gor :
        \/ GoCall(g)
        \/ Read_for(g)
        \/ Read_copy(g)
        \/ Peek_prefill(g)
        \/ Peek_copy(g)
        \/ Skip_head(g)
        \/ Skip_filled(g)
        \/ Write_filled(g)
        \/ Write_cap(g)
        \/ Write_bytes(g)
        \/ Return(g)

SpecCC == InitCC /\ [][NextCC]_vars

\* the results (rb after, n, err, bytes) of the call of a goroutine with
\* locals l when it runs alone from w
Alone(w, l) ==
    CASE l.op = "Read" -> Read(w, l.len)
      [] l.op = "Peek" -> Peek(w, l.len)
      [] l.op = "Skip" -> {Skip(w, l.len)}
      [] l.op = "Write" -> {Write(w, l.p)}
      [] OTHER -> {}

\* ------------------------------------- the two mutexes and the queries (SpecMu)
\* Two goroutines make every public call.  A step ends where another
\* goroutine can see or change something: at a Lock of callMutex or of
\* bufferMutex, after the assignment of a cursor (before that of rb.filled),
\* and after each atomic load of IsFull and IsEmpty.

Queries == {"Len", "Capacity", "IsFull", "IsEmpty"}

\* a goroutine that is not inside a call: as Idle, with the data writeBytes
\* is to store (wb), where prefillBuffer and writeBytes return to (back), the
\* status of the source's answer (status), the values a query has loaded (h,
\* t) and the buffered lengths that were true since the query began (seen)
IdleMu == [pc |-> "idle", op |-> "", len |-> 0, nbytes |-> 0, p |-> <<>>,
           n |-> 0, err |-> "nil", wb |-> <<>>, back |-> "", status |-> "nil",
           h |-> 0, t |-> 0, f |-> 0, b |-> FALSE, seen |-> {}]

\* goroutine g goes on with the locals l; the goroutines inside a query have
\* lived through the lengths that are true after the step
GoesMu(g, l) ==
    gor' = [k \in Gor |->
               LET m == IF k = g THEN l ELSE gor[k]
               IN  IF m.op \in Queries /\ m.pc # "ret"
                   THEN [m EXCEPT !.seen = m.seen \cup truth'] ELSE m]

\* at its return a call keeps its results, no other local
ReturnsMu(g, n, err) ==
    GoesMu(g, [IdleMu EXCEPT !.pc = "ret", !.op = gor[g].op, !.n = n, !.err = err,
                             !.seen = gor[g].seen])

InitMu ==
    /\ bufcap \in 1..MaxCap
    /\ client = "goroutines"
    /\ \E withRd \in BOOLEAN :
          /\ srcLen \in (IF withRd THEN 0..MaxSrc ELSE {0})
          /\ srcEofWith \in (IF withRd THEN BOOLEAN ELSE {FALSE})
          /\ srcShort = FALSE
          /\ srcFail = FALSE
          /\ \E w \in (IF withRd THEN prefillBuffer(Fresh(TRUE)) ELSE {Fresh(FALSE)}) :
                /\ buffer = w.buffer
                /\ head = w.head
                /\ tail = w.tail
                /\ filled = w.filled
                /\ rd = w.rd
                /\ rdErr = w.rdErr
                /\ srcPos = w.srcPos
                /\ srcEnd = w.srcEnd
                /\ srcAgain = w.srcAgain
                /\ reqs = w.reqs
                /\ panicked = w.panicked
                /\ truth = {unlockedLen(w)}
    /\ lin = <<>>
    /\ written = 0
    /\ fifo = <<>>
    /\ out = <<>>
    /\ eofSeen = FALSE
    /\ last = [op |-> "New", len |-> 0, n |-> 0, err |-> "nil", data |-> <<>>, ref |-> <<>>,
               again |-> FALSE]
    /\ callMutex = ""
    /\ bufferMutex = ""
    /\ gor = [g \in Gor |-> IdleMu]

\* what no step of SpecMu changes
MuFrame == UNCHANGED <<fifo, out, eofSeen, last, lin>>

\* a goroutine calls Read, Peek, Skip or Write
M_Call(g) ==
    /\ panicked = ""
    /\ gor[g].pc = "idle"
    /\ Stores(RB)
    /\ \E op \in {"Read", "Peek", "Skip", "Write"} :
          GoesMu(g, [IdleMu EXCEPT !.pc = "callMutex", !.op = op])
    /\ UNCHANGED <<written, callMutex>>
    /\ MuFrame

\* rb.callMutex.Lock(), the first statement of Read(p), Peek(p), Skip(n) and
\* Write(data), with the argument of the call
M_Lock(g) ==
    /\ panicked = ""
    /\ gor[g].pc = "callMutex"
    /\ Lock(callMutex)
    /\ callMutex' = g
    /\ Stores(RB)
    /\ \E len \in 0..MaxP :
          LET op == gor[g].op
          IN  /\ op = "Write" =>
                     /\ len <= MaxData
                     /\ written + len <= (IF FromNew THEN MaxWritten ELSE MaxWrittenRd)
              /\ GoesMu(g, [gor[g] EXCEPT !.pc = IF op = "Peek" THEN "prefill" ELSE op,
                                          !.back = IF op = "Peek" THEN "Peek_copy" ELSE "",
                                          !.len = len,
                                          !.p = IF op = "Write" THEN WriteData(len) ELSE <<>>])
              /\ written' = IF op = "Write" THEN written + len ELSE written
    /\ MuFrame

\* a goroutine calls Len(), Capacity(), IsFull() or IsEmpty()
M_Query(g) ==
    /\ panicked = ""
    /\ gor[g].pc = "idle"
    /\ Stores(RB)
    /\ \E op \in Queries : GoesMu(g, [IdleMu EXCEPT !.pc = op, !.op = op, !.seen = truth])
    /\ UNCHANGED <<written, callMutex>>
    /\ MuFrame

\* Read: the loop condition and the statements after the loop
M_Read_for(g) ==
    /\ panicked = ""
    /\ gor[g].pc = "Read"
    /\ Stores(RB)
    /\ IF gor[g].nbytes < gor[g].len
       THEN GoesMu(g, [gor[g] EXCEPT !.pc = "prefill", !.back = "Read_copy"])
       ELSE IF gor[g].nbytes # 0
       THEN ReturnsMu(g, gor[g].nbytes, "nil")
       ELSE ReturnsMu(g, 0, rdErr)
    /\ UNCHANGED <<written, callMutex>>
    /\ MuFrame

\* prefillBuffer up to the call of writeBytes: the tests and rb.rd.Read
M_prefill(g) ==
    /\ panicked = ""
    /\ gor[g].pc = "prefill"
    /\ IF rdErr = "nil" /\ rd /\ unlockedCapacity(RB) # 0 /\ rdErr # "EOF"
       THEN \E o \in SrcRead(srcPos, unlockedCapacity(RB)) :
               IF o.err = "ERR"
               THEN /\ Stores([Asked(RB, o) EXCEPT !.rdErr = "ERR"])
                    /\ GoesMu(g, [gor[g] EXCEPT !.pc = gor[g].back])
               ELSE /\ Stores([Asked(RB, o) EXCEPT !.srcPos = srcPos + o.n])
                    /\ GoesMu(g, [gor[g] EXCEPT !.pc = "writeBytes", !.status = o.err,
                                                !.wb = SrcSeg(srcPos, srcPos + o.n)])
       ELSE /\ Stores(RB)
            /\ GoesMu(g, [gor[g] EXCEPT !.pc = gor[g].back])
    /\ UNCHANGED <<written, callMutex>>
    /\ MuFrame

\* writeBytes from the Lock of bufferMutex to the assignment of rb.tail
M_writeBytes_tail(g) ==
    /\ panicked = ""
    /\ gor[g].pc = "writeBytes"
    /\ Lock(bufferMutex)
    /\ LET w2 == writeBytes(RB, gor[g].wb)
       IN  /\ Fields(IF w2.panicked # "" THEN w2
                     ELSE [RB EXCEPT !.buffer = w2.buffer, !.tail = w2.tail])
           /\ truth' = truth \cup {unlockedLen(w2)}
    /\ bufferMutex' = g
    /\ GoesMu(g, [gor[g] EXCEPT !.pc = "writeBytes_filled"])
    /\ UNCHANGED <<written, callMutex>>
    /\ MuFrame

\* writeBytes: the assignment of rb.filled and the deferred Unlock; then the
\* caller's statements up to its next call: the end of prefillBuffer, or the
\* return statements of Write
M_writeBytes_filled(g) ==
    /\ panicked = ""
    /\ gor[g].pc = "writeBytes_filled"
    /\ LET w1 == [RB EXCEPT !.filled = IF head = tail THEN 1 ELSE filled]
           w2 == IF gor[g].op # "Write" /\ gor[g].status = "EOF"
                 THEN [w1 EXCEPT !.rd = FALSE, !.rdErr = "EOF"] ELSE w1
       IN  /\ Fields(w2)
           /\ truth' = {unlockedLen(w2)}
    /\ bufferMutex' = ""
    /\ IF gor[g].op = "Write"
       THEN ReturnsMu(g, gor[g].nbytes,
                      IF gor[g].nbytes # gor[g].len THEN "ErrShortWrite" ELSE "nil")
       ELSE GoesMu(g, [gor[g] EXCEPT !.pc = gor[g].back])
    /\ UNCHANGED <<written, callMutex>>
    /\ MuFrame

\* Read's loop body from rblen := rb.unlockedLen() to the call of readBytes
M_Read_copy(g) ==
    /\ panicked = ""
    /\ gor[g].pc = "Read_copy"
    /\ Stores(RB)
    /\ LET l == gor[g]
           rblen0 == unlockedLen(RB)
           rblen == IF rblen0 > l.len - l.nbytes THEN l.len - l.nbytes ELSE rblen0
       IN  IF rblen0 = 0 /\ rdErr # "nil"
           THEN IF rdErr = "EOF" THEN ReturnsMu(g, l.nbytes, "EOF")
                                 ELSE ReturnsMu(g, 0, rdErr)
           ELSE GoesMu(g, [l EXCEPT !.pc = "readBytes", !.n = rblen])
    /\ UNCHANGED <<written, callMutex>>
    /\ MuFrame

\* readBytes from the Lock of bufferMutex to the assignment of rb.head
M_readBytes_head(g) ==
    /\ panicked = ""
    /\ gor[g].pc = "readBytes"
    /\ Lock(bufferMutex)
    /\ LET r == readBytes(RB, gor[g].n)
       IN  /\ Fields(IF r.w.panicked # "" THEN r.w ELSE [RB EXCEPT !.head = r.w.head])
           /\ truth' = truth \cup {unlockedLen(r.w)}
           /\ bufferMutex' = g
           /\ GoesMu(g, [gor[g] EXCEPT !.pc = "readBytes_filled", !.p = gor[g].p \o r.data])
    /\ UNCHANGED <<written, callMutex>>
    /\ MuFrame

\* readBytes: rb.filled = 0 and the deferred Unlock; then the end of Read's
\* loop body
M_readBytes_filled(g) ==
    /\ panicked = ""
    /\ gor[g].pc = "readBytes_filled"
    /\ LET w1 == [RB EXCEPT !.filled = 0]
           nbytes == gor[g].nbytes + gor[g].n
       IN  /\ Fields(w1)
           /\ truth' = {unlockedLen(w1)}
           /\ bufferMutex' = ""
           /\ IF unlockedLen(w1) = 0
              THEN ReturnsMu(g, nbytes, "nil")
              ELSE GoesMu(g, [gor[g] EXCEPT !.pc = "Read", !.nbytes = nbytes, !.n = 0])
    /\ UNCHANGED <<written, callMutex>>
    /\ MuFrame

\* Peek after prefillBuffer: peekBytes locks bufferMutex, copies and unlocks
M_Peek_copy(g) ==
    /\ panicked = ""
    /\ gor[g].pc = "Peek_copy"
    /\ Lock(bufferMutex)
    /\ LET r == PeekBody(RB, gor[g].len)
       IN  /\ Stores(r.w)
           /\ ReturnsMu(g, r.n, r.err)
    /\ UNCHANGED <<written, callMutex>>
    /\ MuFrame

\* Skip: the clamp of n, then skip(n) up to its assignment of rb.head
M_Skip_head(g) ==
    /\ panicked = ""
    /\ gor[g].pc = "Skip"
    /\ LET n1 == IF gor[g].len > unlockedLen(RB) THEN unlockedLen(RB) ELSE gor[g].len
           w2 == skip(RB, n1)
       IN  /\ Fields(IF w2.panicked # "" THEN w2 ELSE [RB EXCEPT !.head = w2.head])
           /\ truth' = truth \cup {unlockedLen(w2)}
           /\ GoesMu(g, [gor[g] EXCEPT !.pc = "Skip_filled", !.n = n1])
    /\ UNCHANGED <<written, callMutex, bufferMutex>>
    /\ MuFrame

\* skip(n): rb.filled = 0
M_Skip_filled(g) ==
    /\ panicked = ""
    /\ gor[g].pc = "Skip_filled"
    /\ LET w1 == [RB EXCEPT !.filled = 0]
       IN  /\ Fields(w1)
           /\ truth' = {unlockedLen(w1)}
    /\ ReturnsMu(g, gor[g].n, "nil")
    /\ UNCHANGED <<written, callMutex, bufferMutex>>
    /\ MuFrame

\* a Write that reads rb.filled and goes on without rb.bufferMutex.Unlock()
M_Write_filled_KeepsLock(g) ==
    /\ panicked = ""
    /\ gor[g].pc = "Write"
    /\ Lock(bufferMutex)
    /\ Fields(RB)
    /\ bufferMutex' = g
    /\ UNCHANGED truth
    /\ IF filled # 0
       THEN ReturnsMu(g, 0, "ErrBufferFull")
       ELSE GoesMu(g, [gor[g] EXCEPT !.pc = "Write_cap"])
    /\ UNCHANGED <<written, callMutex>>
    /\ MuFrame

\* Write: the read of rb.filled between Lock and Unlock of bufferMutex, and
\* the return of ErrBufferFull
M_Write_filled(g) ==
    /\ panicked = ""
    /\ gor[g].pc = "Write"
    /\ Lock(bufferMutex)
    /\ Stores(RB)
    /\ IF filled # 0
       THEN ReturnsMu(g, 0, "ErrBufferFull")
       ELSE GoesMu(g, [gor[g] EXCEPT !.pc = "Write_cap"])
    /\ UNCHANGED <<written, callMutex>>
    /\ MuFrame

\* Write: capacity := rb.Capacity(), which locks bufferMutex, and the clamp of
\* nbytes
M_Write_cap(g) ==
    /\ panicked = ""
    /\ gor[g].pc = "Write_cap"
    /\ Lock(bufferMutex)
    /\ Stores(RB)
    /\ LET capacity == unlockedCapacity(RB)
           nbytes == IF gor[g].len > capacity THEN capacity ELSE gor[g].len
       IN  GoesMu(g, [gor[g] EXCEPT !.pc = "writeBytes", !.nbytes = nbytes,
                                    !.wb = Take(gor[g].p, nbytes)])
    /\ UNCHANGED <<written, callMutex>>
    /\ MuFrame

\* Len and Capacity: rb.bufferMutex.Lock() and the load of rb.filled in IsFull
M_Len_lock(g) ==
    /\ panicked = ""
    /\ gor[g].pc \in {"Len", "Capacity"}
    /\ Lock(bufferMutex)
    /\ Fields(RB)
    /\ bufferMutex' = g
    /\ UNCHANGED truth
    /\ GoesMu(g, [gor[g] EXCEPT !.pc = "delta", !.f = filled])
    /\ UNCHANGED <<written, callMutex>>
    /\ MuFrame

\* Len and Capacity: the rest of unlockedCapacity with the loaded flag, and the
\* deferred Unlock
M_Len_delta(g) ==
    /\ panicked = ""
    /\ gor[g].pc = "delta"
    /\ Fields(RB)
    /\ bufferMutex' = ""
    /\ UNCHANGED truth
    /\ LET capacity == unlockedCapacity([RB EXCEPT !.filled = gor[g].f])
       IN  ReturnsMu(g, IF gor[g].op = "Len" THEN bufcap - capacity ELSE capacity, "nil")
    /\ UNCHANGED <<written, callMutex>>
    /\ MuFrame

\* IsFull: one atomic load
M_IsFull(g) ==
    /\ panicked = ""
    /\ gor[g].pc = "IsFull"
    /\ Stores(RB)
    /\ GoesMu(g, [IdleMu EXCEPT !.pc = "ret", !.op = gor[g].op, !.b = (filled = 1),
                             !.seen = gor[g].seen])
    /\ UNCHANGED <<written, callMutex>>
    /\ MuFrame

\* IsEmpty: atomic.LoadInt32(&rb.head)
M_IsEmpty_head(g) ==
    /\ panicked = ""
    /\ gor[g].pc = "IsEmpty"
    /\ Stores(RB)
    /\ GoesMu(g, [gor[g] EXCEPT !.pc = "IsEmpty_tail", !.h = head])
    /\ UNCHANGED <<written, callMutex>>
    /\ MuFrame

\* IsEmpty: atomic.LoadInt32(&rb.tail) and the comparison
M_IsEmpty_tail(g) ==
    /\ panicked = ""
    /\ gor[g].pc = "IsEmpty_tail"
    /\ Stores(RB)
    /\ IF gor[g].h = tail
       THEN GoesMu(g, [gor[g] EXCEPT !.pc = "IsEmpty_filled", !.t = tail])
       ELSE GoesMu(g, [IdleMu EXCEPT !.pc = "ret", !.op = gor[g].op, !.b = FALSE,
                                  !.seen = gor[g].seen])
    /\ UNCHANGED <<written, callMutex>>
    /\ MuFrame

\* IsEmpty: atomic.LoadInt32(&rb.filled) and the comparison
M_IsEmpty_filled(g) ==
    /\ panicked = ""
    /\ gor[g].pc = "IsEmpty_filled"
    /\ Stores(RB)
    /\ GoesMu(g, [IdleMu EXCEPT !.pc = "ret", !.op = gor[g].op, !.b = (filled = 0),
                             !.seen = gor[g].seen])
    /\ UNCHANGED <<written, callMutex>>
    /\ MuFrame

\* the return of a call, after the deferred rb.callMutex.Unlock() of Read,
\* Peek, Skip and Write
M_Return(g) ==
    /\ panicked = ""
    /\ gor[g].pc = "ret"
    /\ callMutex' = IF gor[g].op \in Queries THEN callMutex ELSE ""
    /\ Stores(RB)
    /\ GoesMu(g, IdleMu)
    /\ UNCHANGED written
    /\ MuFrame

\* the next statements of a goroutine that is inside a call
M_Step(g) ==
    \/ M_Lock(g)
    \/ M_Read_for(g)
    \/ M_prefill(g)
    \/ M_writeBytes_tail(g)
    \/ M_writeBytes_filled(g)
    \/ M_Read_copy(g)
    \/ M_readBytes_head(g)
    \/ M_readBytes_filled(g)
    \/ M_Peek_copy(g)
    \/ M_Skip_head(g)
    \/ M_Skip_filled(g)
    \/ M_Write_filled(g)
    \/ M_Write_cap(g)
    \/ M_Len_lock(g)
    \/ M_Len_delta(g)
    \/ M_IsFull(g)
    \/ M_IsEmpty_head(g)
    \/ M_IsEmpty_tail(g)
    \/ M_IsEmpty_filled(g)
    \/ M_Return(g)

NextMu ==
    \E g \in Gor :
        \/ M_Call(g)
        \/ M_Lock(g)
        \/ M_Query(g)
        \/ M_Read_for(g)
        \/ M_prefill(g)
        \/ M_writeBytes_tail(g)
        \/ M_writeBytes_filled(g)
        \/ M_Read_copy(g)
        \/ M_readBytes_head(g)
        \/ M_readBytes_filled(g)
        \/ M_Peek_copy(g)
        \/ M_Skip_head(g)
        \/ M_Skip_filled(g)
        \/ M_Write_filled(g)
        \/ M_Write_cap(g)
        \/ M_Len_lock(g)
        \/ M_Len_delta(g)
        \/ M_IsFull(g)
        \/ M_IsEmpty_head(g)
        \/ M_IsEmpty_tail(g)
        \/ M_IsEmpty_filled(g)
        \/ M_Return(g)

SpecMu == InitMu /\ [][NextMu]_vars

\* SpecMu where a goroutine inside a call goes on: the scheduler runs it when
\* it can run, every read of the source returns, and a goroutine that waits
\* for a mutex that is unlocked again and again gets it in the end
\* (sync.Mutex hands the mutex over to a waiter that has waited long)
InitMuFair ==
    /\ InitMu
    /\ bufcap <= MaxCapFair
    /\ srcLen <= MaxSrcFair
    /\ ~srcEofWith

SpecMuFair == InitMuFair /\ [][NextMu]_vars /\ \A g \in Gor : SF_vars(M_Step(g))

\* ------------------------------------------- the consumer loop (SpecLoop)
\* The loop of Test (and of io.Copy in the example): one goroutine calls Read
\* with a slice of one byte or more until Read returns io.EOF, and gives up
\* on any other error.  Read runs statement group by statement group, as in
\* SpecCC.
consumer == "g1"

InitLoop ==
    /\ bufcap \in 1..MaxCap
    /\ client = "loop"
    /\ srcLen \in 0..MaxSrc
    /\ srcEofWith \in BOOLEAN
    /\ srcShort \in BOOLEAN
    /\ srcFail \in BOOLEAN
    /\ \E w \in prefillBuffer(Fresh(TRUE)) :
          /\ buffer = w.buffer
          /\ head = w.head
          /\ tail = w.tail
          /\ filled = w.filled
          /\ rd = w.rd
          /\ rdErr = w.rdErr
          /\ srcPos = w.srcPos
          /\ srcEnd = w.srcEnd
          /\ srcAgain = w.srcAgain
          /\ reqs = w.reqs
          /\ panicked = w.panicked
          /\ lin = w
    /\ written = 0
    /\ fifo = <<>>
    /\ out = <<>>
    /\ eofSeen = FALSE
    /\ last = [op |-> "New", len |-> 0, n |-> 0, err |-> "nil", data |-> <<>>, ref |-> <<>>,
               again |-> FALSE]
    /\ callMutex = ""
    /\ bufferMutex = ""
    /\ truth = {}
    /\ gor = [g \in Gor |-> Idle]

\* n, err := rbuf.Read(buf): the call, up to the Lock of callMutex
Test_Read ==
    /\ panicked = ""
    /\ gor[consumer].pc = "idle"
    /\ Lock(callMutex)
    /\ callMutex' = consumer
    /\ \E len \in 1..MaxP :
          Goes(consumer, [Idle EXCEPT !.pc = "Read", !.op = "Read", !.len = len])
    /\ Stores(RB)
    /\ UNCHANGED <<written, fifo, out, eofSeen, last, lin>>

\* Read's deferred Unlock, then the tests of err: leave the loop on io.EOF,
\* fail on another error, go round again otherwise
Test_got ==
    /\ panicked = ""
    /\ gor[consumer].pc = "ret"
    /\ callMutex' = ""
    /\ lin' = RB
    /\ Goes(consumer, [gor[consumer] EXCEPT
                           !.pc = CASE gor[consumer].err = "EOF" -> "done"
                                    [] gor[consumer].err = "nil" -> "idle"
                                    [] OTHER -> "failed"])
    /\ Stores(RB)
    /\ UNCHANGED <<written, fifo, out, eofSeen, last>>

Read_for_consumer == Read_for(consumer)

Read_copy_consumer == Read_copy(consumer)

NextLoop == Test_Read \/ Read_for_consumer \/ Read_copy_consumer \/ Test_got

\* the goroutine is scheduled as long as it can run, and every read of the
\* source returns
SpecLoop == InitLoop /\ [][NextLoop]_vars /\ WF_vars(NextLoop)

\* ------------------------------------------------- src/unnamed/part_001
\* (its unlockedCapacity and unlockedLen are those of src/ringbuffer.go, with
\* a boolean full flag, written 0 and 1 here)

\* rb.rd.Read(rb.buffer[w.tail : w.tail+k]) answered by o: the source writes
\* its o.n bytes into the storage array, then prefillBuffer moves the tail
P1_fill(w, o) ==
    [Asked(w, o) EXCEPT !.buffer = CopyIn(w.buffer, w.tail, SrcSeg(w.srcPos, w.srcPos + o.n)),
              !.srcPos = w.srcPos + o.n,
              !.tail = IF o.n # 0 THEN (w.tail + o.n) % bufcap ELSE w.tail]

\* the end of prefillBuffer: the full flag and the status of the FIRST read
\* (the second read's n and err are variables of the inner block)
P1_finish(w, err, totalLen) ==
    LET w1 == IF w.head = w.tail THEN [w EXCEPT !.filled = 1] ELSE w
    IN  [w |-> IF err = "EOF" THEN [w1 EXCEPT !.rd = FALSE, !.rdErr = "EOF"] ELSE w1,
         n |-> totalLen]

\* the slice expression rb.buffer[lo:hi] handed to rb.rd.Read
Requested(w, lo, hi) == [w EXCEPT !.reqs = Append(w.reqs, [lo |-> lo, hi |-> hi])]

\* the second read of prefillBuffer, after the first left w1 with status err1
P1_second(w1, err1, lCapacity, totalLen) ==
    LET wq == Requested(w1, w1.tail, w1.tail + lCapacity)
    IN  IF w1.tail + lCapacity > bufcap
        THEN {[w |-> [wq EXCEPT !.panicked = "slice bounds out of range"], n |-> totalLen]}
        ELSE {IF o.err = "ERR"
              THEN [w |-> [Asked(wq, o) EXCEPT !.rd = FALSE, !.rdErr = "ERR"],
                    n |-> totalLen]
              ELSE P1_finish(P1_fill(wq, o), err1, totalLen + o.n)
              : o \in SrcRead(w1.srcPos, lCapacity)}

\* prefillBuffer: the (rb after, returned length) pairs it can produce
P1_prefillBuffer(w) ==
    LET totalCapacity == unlockedCapacity(w)
        totalLen == unlockedLen(w)
        rCapacity == IF w.tail < w.head THEN w.head - w.tail ELSE bufcap - w.tail
        wq == Requested(w, w.tail, w.tail + rCapacity)
        first(o) ==
            IF o.err = "ERR"
            THEN {[w |-> [Asked(wq, o) EXCEPT !.rd = FALSE, !.rdErr = "ERR"],
                   n |-> totalLen]}
            ELSE IF rCapacity < totalCapacity /\ o.err # "EOF"
            THEN P1_second(P1_fill(wq, o), o.err, totalCapacity - rCapacity, totalLen + o.n)
            ELSE {P1_finish(P1_fill(wq, o), o.err, totalLen + o.n)}
    IN  IF ~w.rd \/ w.rdErr # "nil" \/ totalCapacity = 0
        THEN {[w |-> w, n |-> totalLen]}
        ELSE UNION {first(o) : o \in SrcRead(w.srcPos, rCapacity)}

P1_Discard(w, n) ==
    LET n1 == IF n > unlockedLen(w) THEN unlockedLen(w) ELSE n
    IN  Ret([w EXCEPT !.head = (w.head + n1) % bufcap, !.filled = 0], n1, "nil", <<>>)

\* copyToBuffer(data, start) with len(data) = n: the bytes it copies into data
copyToBuffer(w, n, start) ==
    LET end == start + n
    IN  IF end <= bufcap
        THEN Slice(w.buffer, start, end)
        ELSE Slice(w.buffer, start, bufcap) \o Slice(w.buffer, 0, end % bufcap)

\* the states Peek and Read compute from: prefillBuffer runs only when the
\* request exceeds the buffered length and the source is still there
P1_filled(w, plen) ==
    IF plen > unlockedLen(w) /\ w.rd
    THEN P1_prefillBuffer([w EXCEPT !.reqs = <<>>])
    ELSE {[w |-> [w EXCEPT !.reqs = <<>>], n |-> unlockedLen(w)]}

P1_Peek(w, plen) ==
    {IF f.w.panicked # "" THEN Ret(f.w, 0, "panic", <<>>)
     ELSE LET rblen == IF f.n > plen THEN plen ELSE f.n
          IN  Ret(f.w, rblen, f.w.rdErr, copyToBuffer(f.w, rblen, f.w.head))
     : f \in P1_filled(w, plen)}

P1_Read(w, plen) ==
    {IF f.w.panicked # "" THEN Ret(f.w, 0, "panic", <<>>)
     ELSE LET rblen == IF f.n > plen THEN plen ELSE f.n
          IN  Ret(P1_Discard(f.w, rblen).w, rblen, f.w.rdErr,
                  copyToBuffer(f.w, rblen, f.w.head))
     : f \in P1_filled(w, plen)}

\* New and NewReaderSize of part_001: no fill at construction.  A client
\* "reader" makes Read calls of one byte or more, a client "any" every call.
InitPD ==
    /\ bufcap \in 1..MaxCapPD
    /\ client \in {"reader", "any"}
    /\ srcLen \in 0..MaxSrc
    /\ srcEofWith \in BOOLEAN
    /\ srcShort \in BOOLEAN
    /\ srcFail \in BOOLEAN
    /\ buffer = [i \in 0..(bufcap - 1) |-> 0]
    /\ head = 0
    /\ tail = 0
    /\ filled = 0
    /\ rd = TRUE
    /\ rdErr = "nil"
    /\ srcPos = 0
    /\ srcEnd = ""
    /\ srcAgain = FALSE
    /\ reqs = <<>>
    /\ panicked = ""
    /\ fifo = <<>>
    /\ written = 0
    /\ out = <<>>
    /\ eofSeen = FALSE
    /\ last = [op |-> "New", len |-> 0, n |-> 0, err |-> "nil", data |-> <<>>, ref |-> <<>>,
               again |-> FALSE]
    /\ Sequential

PDRead ==
    /\ panicked = ""
    /\ \E plen \in (IF client = "reader" THEN 1..MaxP ELSE 0..MaxP) :
       \E r \in P1_Read(RB, plen) :
          LET avail == fifo \o SrcSeg(srcPos, r.w.srcPos)
          IN  /\ Becomes(r.w)
              /\ fifo' = Drop(avail, r.n)
              /\ out' = IF client = "reader" /\ ~eofSeen THEN out \o r.data ELSE out
              /\ eofSeen' = (eofSeen \/ (client = "reader" /\ r.err = "EOF"))
              /\ last' = Call("Read", plen, r, Take(avail, plen))
              /\ UNCHANGED written

PDPeek ==
    /\ panicked = ""
    /\ client = "any"
    /\ \E plen \in 0..MaxP : \E r \in P1_Peek(RB, plen) :
          /\ Becomes(r.w)
          /\ fifo' = fifo \o SrcSeg(srcPos, r.w.srcPos)
          /\ last' = Call("Peek", plen, r, <<>>)
          /\ UNCHANGED <<written, out, eofSeen>>

PDDiscard ==
    /\ panicked = ""
    /\ client = "any"
    /\ \E n \in 0..MaxP :
          LET r == P1_Discard([RB EXCEPT !.reqs = <<>>], n)
          IN  /\ Becomes(r.w)
              /\ fifo' = Drop(fifo, r.n)
              /\ last' = Call("Discard", n, r, <<>>)
              /\ UNCHANGED <<written, out, eofSeen>>

NextPD == PDRead \/ PDPeek \/ PDDiscard

SpecPD == InitPD /\ [][NextPD]_vars

\* ------------------------------------- the copies on their own (SpecCopy)
\* writeBytes, readBytes and peekBytes applied to every buffer of a capacity
\* up to MaxCapCopy: every position of the cursors, the flag set only where
\* the cursors meet.  Slot i starts with the byte i + 1; the k bytes written
\* are bufcap + 1 .. bufcap + k, so that a byte tells where it came from.
CopyData(k) == [i \in 1..k |-> bufcap + i]

InitCopy ==
    /\ bufcap \in 1..MaxCapCopy
    /\ client = "copy"
    /\ srcLen = 0
    /\ srcEofWith = FALSE
    /\ srcShort = FALSE
    /\ srcFail = FALSE
    /\ buffer = [i \in 0..(bufcap - 1) |-> i + 1]
    /\ head \in 0..(bufcap - 1)
    /\ tail \in 0..(bufcap - 1)
    /\ filled \in {0, 1}
    /\ filled = 1 => head = tail
    /\ rd = FALSE
    /\ rdErr = "nil"
    /\ srcPos = 0
    /\ srcEnd = ""
    /\ srcAgain = FALSE
    /\ reqs = <<>>
    /\ panicked = ""
    /\ fifo = <<>>
    /\ written = 0
    /\ out = <<>>
    /\ eofSeen = FALSE
    /\ last = [op |-> "New", len |-> 0, n |-> 0, err |-> "nil", data |-> <<>>, ref |-> <<>>,
               again |-> FALSE]
    /\ Sequential

\* rb.writeBytes(data) with len(data) = k
Copy_writeBytes ==
    /\ panicked = ""
    /\ \E k \in 0..bufcap :
          /\ Becomes(writeBytes(RB, CopyData(k)))
          /\ last' = [last EXCEPT !.op = "writeBytes", !.len = k, !.data = CopyData(k)]
    /\ UNCHANGED <<written, fifo, out, eofSeen>>

\* rb.readBytes(data) with len(data) = n
Copy_readBytes ==
    /\ panicked = ""
    /\ \E n \in 0..bufcap :
          LET r == readBytes(RB, n)
          IN  /\ Becomes(r.w)
              /\ last' = [last EXCEPT !.op = "readBytes", !.len = n, !.data = r.data]
    /\ UNCHANGED <<written, fifo, out, eofSeen>>

\* rb.peekBytes(data) with len(data) = n
Copy_peekBytes ==
    /\ panicked = ""
    /\ \E n \in 0..bufcap :
          LET r == peekBytes(RB, n)
          IN  /\ Becomes(r.w)
              /\ last' = [last EXCEPT !.op = "peekBytes", !.len = n, !.data = r.data]
    /\ UNCHANGED <<written, fifo, out, eofSeen>>

NextCopy == Copy_writeBytes \/ Copy_readBytes \/ Copy_peekBytes

SpecCopy == InitCopy /\ [][NextCopy]_vars

\* ------------------------------------------------------------------ claims
\* the source's whole byte sequence S
S == SrcSeg(0, srcLen)

\* the valid bytes of the storage array, oldest first, read off the cursors
Held == IF filled = 1 THEN bufcap ELSE (tail - head + bufcap) % bufcap

Contents == [i \in 1..Held |-> buffer[(head + i - 1) % bufcap]]

\* C1: a reader that calls Read (one byte or more at a time) on a buffer of
\* NewReaderSize over a source yielding S and then end-of-stream receives, up
\* to its first io.EOF, exactly S: never a byte that is not the next byte of
\* S, and all of S once io.EOF came.
C1_RoundTrip ==
    (client = "reader" /\ ~srcFail) =>
        /\ IsPrefix(out, S)
        /\ eofSeen => out = S

\* C2: with Write and Read calls only on a buffer of New, the buffered bytes
\* and their number are those of the unbounded FIFO queue of the accepted
\* bytes, and Read returns what that queue returns.
C2_MatchesFifo ==
    (client = "queue" /\ panicked = "") =>
        /\ Contents = fifo
        /\ unlockedLen(RB) = Len(fifo)
        /\ last.op = "Read" => last.data = last.ref

\* C3: the full flag is set exactly when the bytes accepted and not yet
\* consumed number the capacity.
C3_FullIffHoldsCap ==
    panicked = "" => ((filled = 1) <=> (Len(fifo) = bufcap))

\* C4: the Read call that returns the last buffered bytes of an exhausted
\* source (it returned the bytes that were buffered, the end-of-stream is
\* recorded, the source has given all of S and the buffer is empty after it)
\* returns the end-of-stream status with them.
C4_EofWithLastBytes ==
    (client = "reader" /\ ~srcFail /\ last.op = "Read" /\ last.n > 0
         /\ last.data = last.ref /\ rdErr = "EOF" /\ srcPos = srcLen /\ Held = 0)
        => last.err = "EOF"

\* C6: a Read on a reader-backed buffer returns fewer bytes than len(p) only
\* when the source is exhausted and the buffer is empty.
C6_ShortOnlyWhenExhausted ==
    (client = "reader" /\ ~srcFail /\ last.op = "Read" /\ last.n < last.len)
        => (srcPos = srcLen /\ unlockedLen(RB) = 0)

\* C8: a Write on a full buffer, whatever its data, returns 0 and
\* ErrBufferFull and changes neither cursor, nor the full flag, nor a stored
\* byte.
C8_WriteOnFullRejected ==
    [][(panicked = "" /\ filled = 1 /\ last'.op = "Write") =>
           /\ last'.n = 0
           /\ last'.err = "ErrBufferFull"
           /\ UNCHANGED <<buffer, head, tail, filled, fifo>>]_vars

C8_Witness ==
    last.op = "Write" /\ last.len = 0 /\ last.err = "ErrBufferFull" /\ filled = 1

\* C9: a Write on a buffer that is not full accepts n = min(len(data), free
\* capacity before the call) bytes; its status is the short write exactly
\* when n < len(data), and no error otherwise.
C9_WriteAcceptsMin ==
    [][(panicked = "" /\ filled = 0 /\ last'.op = "Write") =>
           /\ last'.n = Min(last'.len, bufcap - Held)
           /\ last'.err = (IF last'.n < last'.len THEN "ErrShortWrite" ELSE "nil")]_vars

C9_Witness ==
    /\ last.op = "Write" /\ last.err = "ErrShortWrite"
    /\ 0 < last.n /\ last.n < last.len /\ tail <= head /\ head > 0

\* C10 as stated: two Peek calls in succession with the same length return
\* identical bytes and identical length.
C10_PeekIdempotent ==
    [][(last.op = "Peek" /\ last'.op = "Peek" /\ last'.len = last.len) =>
           (last'.data = last.data /\ last'.n = last.n)]_vars

\* C10 amended: the second Peek returns the bytes of the first followed by
\* zero or more further bytes; the two results are identical when the first
\* Peek returned len(p) bytes, and when the source answers every read with
\* all the requested bytes it still has.
C10_PeekExtends ==
    [][(last.op = "Peek" /\ last'.op = "Peek" /\ last'.len = last.len) =>
           /\ IsPrefix(last.data, last'.data)
           /\ (last.n = last.len \/ ~srcShort) =>
                  (last'.data = last.data /\ last'.n = last.n)]_vars

C10_Witness ==
    last.op = "Peek" /\ last.again /\ last.n > 0 /\ last.n < last.len /\ srcShort

\* C5 (part_001): a Read that returns the end-of-stream status leaves the
\* buffer empty, so a reader that stops at its first io.EOF has received all
\* of S.
C5_EofOnlyWhenDrained ==
    (client = "reader" /\ ~srcFail /\ last.op = "Read" /\ last.err = "EOF") =>
        (Held = 0 /\ out = S)

\* C7: Discard(n) (Skip(n)), called when the buffer holds the accepted bytes,
\* returns k = min(n, buffered length), the buffered length drops by k, and
\* the buffered bytes after it are those from the k-th on.
C7_DiscardExact ==
    [][(panicked = "" /\ Contents = fifo /\ last'.op \in {"Discard", "Skip"}) =>
           LET k == Min(last'.len, Held)
           IN  /\ last'.n = k
               /\ Held' = Held - k
               /\ Contents' = Drop(Contents, k)]_vars

\* C11: Peek(p) leaves the read cursor where it was, keeps every buffered
\* byte in its place (the buffered bytes after it start with those before
\* it, so the buffered length does not drop), returns exactly min(len(p),
\* buffered length after its fill attempt) bytes, and does not panic, also
\* when len(p) exceeds the capacity.
C11_PeekNeverConsumes ==
    [][(panicked = "" /\ last'.op = "Peek") =>
           /\ panicked' = ""
           /\ head' = head
           /\ Held' >= Held
           /\ IsPrefix(Contents, Contents')
           /\ last'.n = Min(last'.len, Held')
           /\ Len(last'.data) = last'.n]_vars

C11_Witness ==
    /\ last.op = "Peek" /\ last.len > bufcap /\ last.n = bufcap
    /\ head > 0 /\ panicked = ""

\* C12: with goroutines calling Read, Write, Peek and Skip concurrently, the
\* calls take effect one whole call at a time: when a call is about to
\* return, its returned length, status and bytes and the state of the buffer
\* are those of that call run alone from the state the previous call to
\* return left (the calls in the order of their returns are a sequential
\* order), and no other goroutine is inside a call.
C12_OneCallAtATime ==
    \A g \in Gor :
        (panicked = "" /\ gor[g].pc = "ret") =>
            /\ \E r \in Alone(lin, gor[g]) :
                  /\ r.w = RB
                  /\ r.n = gor[g].n
                  /\ r.err = gor[g].err
                  /\ gor[g].op \in {"Read", "Peek"} => r.data = Take(gor[g].p, gor[g].n)
            /\ \A h \in Gor \ {g} : gor[h].pc = "idle"

\* a Read that took a full buffer's bytes across the end of the storage array
\* is about to return, after an earlier call that consumed
C12_Witness ==
    \E g \in Gor :
        /\ gor[g].pc = "ret" /\ gor[g].op = "Read"
        /\ gor[g].n = bufcap /\ bufcap > 1
        /\ lin.head > 0
        /\ panicked = ""

\* C13: with a producer goroutine writing and a consumer goroutine reading,
\* a Read(p) with len(p) >= 1 issued on an empty buffer whose stream has not
\* ended blocks: when it returns, data has arrived (it returns bytes) or the
\* end-of-stream or a fatal error is recorded (it returns that status).
C13_ReadWaitsForData ==
    \A g \in Gor :
        (panicked = "" /\ gor[g].pc = "ret" /\ gor[g].op = "Read" /\ gor[g].len >= 1) =>
            (gor[g].n > 0 \/ gor[g].err \in {"EOF", "ERR"})

\* C14: once the source has answered end-of-stream or a non-end-of-stream
\* error, no later Read or Peek calls the source's Read again (the source is
\* never called after a status, and hands out no further byte), and the
\* recorded status is that answer and never changes.
C14_NoCallAfterStatus ==
    [][(srcEnd # "") =>
           /\ ~srcAgain'
           /\ srcPos' = srcPos
           /\ rdErr = srcEnd
           /\ rdErr' = rdErr]_vars

\* a Read returns 0 bytes and io.EOF only when the end-of-stream was recorded
\* before it began (a fill that records it leaves Len() # 0): the last call
\* is a Read made after the source's end-of-stream
C14_Witness ==
    /\ last.op = "Read" /\ last.len >= 1 /\ last.n = 0 /\ last.err = "EOF"
    /\ srcEnd = "EOF" /\ ~srcAgain /\ srcPos > 0

\* C15: after a Read on a reader-backed buffer has returned io.EOF, the next
\* Read (no other call in between, so no Write) returns 0 bytes and io.EOF.
\* Stated of the states in which the buffer holds the accepted bytes.
C15_EofIsSticky ==
    [][(last.op = "Read" /\ last.err = "EOF" /\ panicked = "" /\ Contents = fifo
            /\ last'.op = "Read") =>
           (last'.n = 0 /\ last'.err = "EOF")]_vars

\* C16: no sequence and no interleaving of public calls, from NewReaderSize
\* or New on, over a source that returns at most the bytes it was asked for,
\* reaches the "RingBuffer overflow" panic of writeBytes and skip or the
\* "RingBuffer underflow" panic of readBytes and peekBytes.
C16_NoOverflowNoUnderflow ==
    panicked \notin {"RingBuffer overflow", "RingBuffer underflow"}

\* a Skip of more than the buffered bytes, clamped to a full buffer that
\* starts in the middle of the storage array, is about to return
C16_Witness ==
    \E g \in Gor :
        /\ gor[g].pc = "ret" /\ gor[g].op = "Skip"
        /\ gor[g].len > gor[g].n /\ gor[g].n = bufcap /\ head > 0
        /\ panicked = ""

\* C17: the loop that calls Read with a non-empty slice until io.EOF ends
\* when the source yields finitely many bytes and then end-of-stream: every
\* Read call it makes returns, and a Read finally returns io.EOF.
C17_LoopTerminates ==
    /\ (gor[consumer].pc \in {"Read", "Read_copy"}) ~> (gor[consumer].pc = "ret")
    /\ (~srcFail) ~> (gor[consumer].pc = "done")

\* the loop has ended after it received all the bytes of a source of MaxSrc
\* bytes that answers with less than it is asked for
C17_Witness ==
    /\ gor[consumer].pc = "done" /\ gor[consumer].err = "EOF"
    /\ srcLen = MaxSrc /\ srcPos = srcLen /\ srcShort /\ ~srcFail /\ bufcap > 1

\* C18: after any sequence of public operations the read cursor and the
\* write cursor are in [0, capacity), Len() is the number of slots from the
\* read cursor round to the write cursor (all of them when the full flag is
\* set) and Capacity() the number of the others, so that Len() + Capacity()
\* is the capacity of the storage array, and 0 <= Len() <= capacity.
C18_CursorsAndLengths ==
    panicked = "" =>
        /\ head \in 0..(bufcap - 1)
        /\ tail \in 0..(bufcap - 1)
        /\ unlockedLen(RB) = Held
        /\ unlockedCapacity(RB) = bufcap - Held
        /\ unlockedLen(RB) + unlockedCapacity(RB) = bufcap
        /\ 0 <= unlockedLen(RB) /\ unlockedLen(RB) <= bufcap

\* a Skip has taken the read cursor round the end of the storage array, and
\* one byte is buffered
C18_Witness ==
    /\ last.op = "Skip" /\ last.n = 1 /\ bufcap = 2
    /\ head = 0 /\ tail = 1 /\ filled = 0 /\ panicked = ""

\* the slots of the storage array that hold unconsumed bytes
Unconsumed == {(head + i) % bufcap : i \in 0..(Held - 1)}

\* C19 (part_001): every region a fill hands to the source lies inside the
\* storage array and covers no slot that held an unconsumed byte when the
\* call began, and a second request is the free span that starts at offset 0
\* and ends at the read cursor, the first having gone up to the end of the
\* array, whatever the source answered to the first.
C19_RequestsInFreeSpan ==
    [][\A i \in 1..Len(reqs') :
           LET q == reqs'[i]
           IN  /\ 0 <= q.lo /\ q.lo <= q.hi /\ q.hi <= bufcap
               /\ \A k \in q.lo..(q.hi - 1) : k \notin Unconsumed
               /\ i = 2 => /\ q.lo = 0
                           /\ q.hi = head
                           /\ reqs'[1].hi = bufcap]_vars

\* C20 (part_001): when a source read of a fill has returned end-of-stream,
\* that fill has dropped the source reference and recorded io.EOF as the
\* status, and the source is never called after it returned a status.
C20_EofRecordedByFill ==
    panicked = "" =>
        /\ srcEnd = "EOF" => (rd = FALSE /\ rdErr = "EOF")
        /\ ~srcAgain

\* C21: a query that runs while another goroutine is in Read, Write or Skip
\* returns a value that was true of the buffer at some instant between its
\* start and its end: Len() a length the buffer had, Capacity() the free space
\* it had, IsFull() true only if it held bufcap bytes at some instant and false
\* only if it held less, IsEmpty() true only if it held zero bytes at some
\* instant and false only if it held some.
C21_QueriesSeeTheBuffer ==
    \A g \in Gor :
        (gor[g].pc = "ret" /\ gor[g].op \in Queries) =>
            LET l == gor[g]
            IN  /\ l.op = "Len" => l.n \in l.seen
                /\ l.op = "Capacity" => bufcap - l.n \in l.seen
                /\ l.op = "IsFull" => IF l.b THEN bufcap \in l.seen
                                             ELSE \E k \in l.seen : k < bufcap
                /\ l.op = "IsEmpty" => IF l.b THEN 0 \in l.seen
                                              ELSE \E k \in l.seen : k > 0

\* C22: the copy across the end of the storage array is byte-exact.  A
\* writeBytes of k bytes that fit in the free space stores byte i of the data
\* in slot (tail + i) mod capacity for every i < k and leaves every other slot
\* as it was; a readBytes or peekBytes of n bytes, n at most the buffered
\* length, returns n bytes, the one at position i being the byte of slot
\* (head + i) mod capacity.
C22_CopyIsByteExact ==
    [][/\ (last'.op = "writeBytes" /\ panicked' = "") =>
              \A j \in 0..(bufcap - 1) :
                  LET from == {i \in 0..(last'.len - 1) : (tail + i) % bufcap = j}
                  IN  IF from = {} THEN buffer'[j] = buffer[j]
                      ELSE \A i \in from : buffer'[j] = last'.data[i + 1]
       /\ (last'.op \in {"readBytes", "peekBytes"} /\ panicked' = "") =>
              /\ Len(last'.data) = last'.len
              /\ buffer' = buffer
              /\ \A i \in 0..(last'.len - 1) : last'.data[i + 1] = buffer[(head + i) % bufcap]
      ]_vars

\* writeBytes has just copied two bytes or more up to the end of the storage
\* array and two bytes or more from its start
C22_Witness ==
    /\ last.op = "writeBytes"
    /\ panicked = ""
    /\ tail >= 2
    /\ last.len - tail >= 2
    /\ buffer[bufcap - 1] = last.data[last.len - tail]
    /\ buffer[0] = last.data[last.len - tail + 1]

\* the mutex the next statement of goroutine g locks, "" if it locks none
C23_Requests(g) ==
    IF gor[g].pc = "callMutex" THEN "callMutex"
    ELSE IF gor[g].pc \in {"Write", "Write_cap", "writeBytes", "readBytes", "Peek_copy",
                           "Len", "Capacity"}
    THEN "bufferMutex"
    ELSE ""

\* the order callMutex, then bufferMutex: a goroutine that requests callMutex
\* holds no mutex, one that requests bufferMutex does not hold it, and one
\* that holds bufferMutex inside Read, Peek, Skip or Write holds callMutex
C23_LockOrder ==
    \A g \in Gor :
        /\ C23_Requests(g) = "callMutex" => callMutex # g /\ bufferMutex # g
        /\ C23_Requests(g) = "bufferMutex" => bufferMutex # g
        /\ (bufferMutex = g /\ gor[g].op \notin Queries) => callMutex = g

\* C23: the two mutexes are acquired in the order callMutex then bufferMutex
\* and bufferMutex is never requested by the goroutine that holds it, and
\* every Read, Write, Peek, Skip, Len, Capacity, IsFull and IsEmpty call of
\* concurrent goroutines returns, each read of the source returning.
C23_CallsReturn ==
    /\ []C23_LockOrder
    /\ \A g \in Gor : (gor[g].pc # "idle") ~> (gor[g].pc = "idle")

\* a goroutine inside Read, Peek, Skip or Write requests bufferMutex while
\* the other goroutine holds it inside Len or Capacity, and a goroutine has
\* waited for callMutex and got it
C23_Witness ==
    \E g, h \in Gor :
        /\ g # h
        /\ callMutex = g
        /\ C23_Requests(g) = "bufferMutex"
        /\ bufferMutex = h
        /\ gor[h].op \in {"Len", "Capacity"}
        /\ gor[g].op \in {"Read", "Write"}

====
